---- MODULE Spec2Model ----
(***************************************************************************)
(* RecMar -> Shopify bulk inventory sync.                                  *)
(*                                                                         *)
(* Two programs live in the repository:                                    *)
(*   src/unnamed/part_000  the sync with DEDUPE by inventory_item_id and   *)
(*                         the activate-and-retry pass  (Spec, SpecMatch)  *)
(*   src/recmar-sync.mjs   the sync that writes the matched rows as they   *)
(*                         are, with no recovery pass      (SpecLegacy)    *)
(* Matching, the catalog index build and the first write pass are the same *)
(* text in both files; line numbers below are those of part_000 unless a   *)
(* definition says otherwise.                                              *)
(***************************************************************************)
EXTENDS Integers, Sequences, FiniteSets, TLC

(***************************************************************************)
(* Bounds of the model.                                                    *)
(***************************************************************************)
MaxCatalog == 2   \* listed catalog records (SpecMatch)
MaxFeed    == 3   \* feed rows
MaxBatch   == 2   \* GQL_BATCH is 0..MaxBatch (0: unset / not a number)
MaxErrs    == 2   \* userErrors returned by one write call
PageFirst  == 2   \* entries per catalog page (stands for first:250)
MaxPages   == 3   \* pages of a paged listing source (SpecIndex)
MaxCalls   == 5   \* calls a run of SpecIndex may issue
MaxRecords == 3   \* listed catalog records (SpecCatalog)

(***************************************************************************)
(* Program constants.                                                      *)
(***************************************************************************)
DefaultBatch == 100    \* GQL_BATCH = '100', Number(GQL_BATCH) || 100
SweepCap     == 1500   \* work.slice(0, 1500) when FULL_SWEEP is off

Undefined == 0         \* Map.get of an absent key; item ids are >= 1
NoCursor  == 0         \* cursor = null

(***************************************************************************)
(* Text.  A SKU is a sequence of one-character strings.                    *)
(***************************************************************************)
LowerChars == <<"a","b","c","d","e","f","g","h","i","j","k","l","m",
                "n","o","p","q","r","s","t","u","v","w","x","y","z">>
UpperChars == <<"A","B","C","D","E","F","G","H","I","J","K","L","M",
                "N","O","P","Q","R","S","T","U","V","W","X","Y","Z">>
DigitChars == <<"0","1","2","3","4","5","6","7","8","9">>

Range(s) == {s[k] : k \in 1..Len(s)}

Min(a, b) == IF a < b THEN a ELSE b
Max(a, b) == IF a > b THEN a ELSE b

\* String.prototype.toUpperCase, one character
ToUpperChar(c) ==
  IF \E k \in 1..26 : LowerChars[k] = c
    THEN UpperChars[CHOOSE k \in 1..26 : LowerChars[k] = c]
    ELSE c

\* the characters /[^A-Z0-9]/g leaves in place
IsAZ09(c) == c \in Range(UpperChars) \cup Range(DigitChars)

\* String(s||'').toUpperCase().replace(/[^A-Z0-9]/g,'')
normalizeSkuText(s) ==
  SelectSeq([k \in 1..Len(s) |-> ToUpperChar(s[k])], IsAZ09)

\* gid://shopify/InventoryItem/<id>, gid://shopify/Location/<id>
invGid(id) == [type |-> "InventoryItem", id |-> id]
locGid(id) == [type |-> "Location", id |-> id]

\* gid.match(/InventoryItem\/(\d+)/): m[1], or Undefined when there is no match
ParseInvGid(gid) ==
  IF gid.type = "InventoryItem" /\ gid.id >= 1 THEN gid.id ELSE Undefined

(***************************************************************************)
(* Maps.  exact and skuMap are functions on their key sets; byInv and the  *)
(* feed keep insertion order and are sequences.                            *)
(***************************************************************************)
EmptyMap == [k \in {} |-> Undefined]

MapGet(m, k) == IF k \in DOMAIN m THEN m[k] ELSE Undefined
MapSet(m, k, v) == [x \in (DOMAIN m) \cup {k} |-> IF x = k THEN v ELSE m[x]]
MapSize(m) == Cardinality(DOMAIN m)

\* skuMap.get(k), and skuMap.get(k) || '': an absent key and '' are both falsy
NoSku == <<>>
SkuGet(m, k) == IF k \in DOMAIN m THEN m[k] ELSE NoSku

\* normalized.get(n) || []
ListGet(m, k) == IF k \in DOMAIN m THEN m[k] ELSE <<>>

(***************************************************************************)
(* The SKU matcher, one feed row (lines 208-240).                          *)
(***************************************************************************)
\* (SKU_MATCH_MODE || 'normalize').toLowerCase(); the raw values are lower case
ModeOf(raw) == IF raw = "" THEN "normalize" ELSE raw

\* the manual map consulted before the exact lookup of the feed SKU
MapStepMapFirst(feedSku, ex, smap) ==
  LET mapped == SkuGet(smap, feedSku)
      useMap == MapSize(smap) > 0 /\ mapped # NoSku
      invId1 == IF useMap THEN MapGet(ex, mapped) ELSE MapGet(ex, feedSku)
  IN  [targetSku |-> IF useMap THEN mapped ELSE feedSku,
       invId     |-> invId1,
       dMapped   |-> IF useMap /\ invId1 # Undefined THEN 1 ELSE 0]

\* lines 209-219: the exact lookup, then the manual map when it missed
MapStep(feedSku, ex, smap) ==
  LET invId0 == MapGet(ex, feedSku)
      mapped == SkuGet(smap, feedSku)
      useMap == invId0 = Undefined /\ MapSize(smap) > 0 /\ mapped # NoSku
      invId1 == IF useMap THEN MapGet(ex, mapped) ELSE invId0
  IN  [targetSku |-> IF useMap THEN mapped ELSE feedSku,
       invId     |-> invId1,
       dMapped   |-> IF useMap /\ invId1 # Undefined THEN 1 ELSE 0]

\* lines 221, 231-233: `else if (invId) matchedExact++`
ExactInc(invId, mode) ==
  IF ~(invId = Undefined /\ mode # "exact") /\ invId # Undefined THEN 1 ELSE 0

\* line 221: `!invId && mode !== 'exact'`
UseNormalized(invId, mode) == invId = Undefined /\ mode # "exact"

\* lines 208-240, one iteration: the bucket the row goes to, the row pushed
\* there, and what is added to the three tier counters
MatchRow(feedSku, qty, ex, norm, smap, mode) ==
  LET ms   == MapStep(feedSku, ex, smap)
      nk   == normalizeSkuText(ms.targetSku)
      list == ListGet(norm, nk)
      t3   == UseNormalized(ms.invId, mode)
      invId == IF t3 /\ Len(list) = 1 THEN list[1] ELSE ms.invId
      dN   == IF t3 /\ Len(list) = 1 THEN 1 ELSE 0
      dE   == ExactInc(ms.invId, mode)
      mapped_to == SkuGet(smap, feedSku)
  IN  IF t3 /\ Len(list) > 1
        THEN [bucket |-> "ambiguous",
              row |-> [normalized_key |-> nk, matches |-> Len(list),
                       sample |-> ms.targetSku],
              dExact |-> dE, dMapped |-> ms.dMapped, dNormalized |-> dN]
      ELSE IF invId = Undefined
        THEN [bucket |-> "miss",
              row |-> [sku |-> feedSku, mapped_to |-> mapped_to,
                       reason |-> "not_in_shopify"],
              dExact |-> dE, dMapped |-> ms.dMapped, dNormalized |-> dN]
      ELSE   [bucket |-> "candidate",
              row |-> [sku |-> ms.targetSku, inventory_item_id |-> invId,
                       qty |-> qty],
              dExact |-> dE, dMapped |-> ms.dMapped, dNormalized |-> dN]

(***************************************************************************)
(* Deduplication and scope of work (lines 242-253).                        *)
(***************************************************************************)
HasKey(byInv, id) == \E k \in 1..Len(byInv) : byInv[k].inventory_item_id = id
KeyPos(byInv, id) == CHOOSE k \in 1..Len(byInv) : byInv[k].inventory_item_id = id

\* a Map that keeps the first value of a key: first write wins
ByInvSetFirstWins(byInv, x) ==
  IF HasKey(byInv, x.inventory_item_id) THEN byInv ELSE Append(byInv, x)

\* a Map whose set moves a present key to the end (delete, then set)
ByInvSetMoveToEnd(byInv, x) ==
  LET IsOther(y) == y.inventory_item_id # x.inventory_item_id
  IN  Append(SelectSeq(byInv, IsOther), x)

\* byInv.set(x.inventory_item_id, x): a present key keeps its place
ByInvSet(byInv, x) ==
  IF HasKey(byInv, x.inventory_item_id)
    THEN [byInv EXCEPT ![KeyPos(byInv, x.inventory_item_id)] = x]
    ELSE Append(byInv, x)

RECURSIVE ByInvFill(_, _)
ByInvFill(byInv, cands) ==
  IF cands = <<>> THEN byInv
  ELSE ByInvFill(ByInvSet(byInv, Head(cands)), Tail(cands))

\* no dedupe at all: the work list is the candidates (as in recmar-sync.mjs)
DedupeNone(cands) == cands

\* lines 243-245: Array.from(byInv.values())
Dedupe(cands) == ByInvFill(<<>>, cands)

\* Array.prototype.slice(a, b) on whole numbers, 0-based, end exclusive
Slice(s, a, b) == SubSeq(s, Min(a, Len(s)) + 1, Min(b, Len(s)))

\* lines 249-253
ScopeWork(w, fullSweep) == IF fullSweep # "true" THEN Slice(w, 0, SweepCap) ELSE w

\* line 248: Math.max(1, Number(GQL_BATCH) || 100)
BatchOf(g) == Max(1, IF g = 0 THEN DefaultBatch ELSE g)

(***************************************************************************)
(* The bulk writer's arithmetic (lines 264-301).                           *)
(***************************************************************************)
\* a chunk that always starts one item late
ChunkAtSkipping(w, at, batch) == Slice(w, at + 1, at + batch)

\* line 265: work.slice(i, i+BATCH)
ChunkAt(w, at, batch) == Slice(w, at, at + batch)

\* a payload whose location is taken from the item
QuantitiesAtItem(chunk, loc) ==
  [k \in 1..Len(chunk) |->
     [inventoryItemId |-> invGid(chunk[k].inventory_item_id),
      locationId      |-> locGid(chunk[k].inventory_item_id),
      quantity        |-> chunk[k].qty]]

\* lines 271-275: the quantities of the request
Quantities(chunk, loc) ==
  [k \in 1..Len(chunk) |->
     [inventoryItemId |-> invGid(chunk[k].inventory_item_id),
      locationId      |-> locGid(loc),
      quantity        |-> chunk[k].qty]]

\* the clamp forgotten
OkCountUnclamped(n, k) == n - k

\* every row of the chunk counted, whatever the errors
OkCountAll(n, k) == n

\* line 292: Math.max(0, chunk.length - ue.length)
OkCount(n, k) == Max(0, n - k)

\* line 294: the row pushed to changedRows
ChangedRow(x) ==
  [sku |-> x.sku, inventory_item_id |-> x.inventory_item_id, to |-> x.qty]

\* line 294: for (const x of chunk.slice(0, ok)) changedRows.push(...)
ChangedOf(chunk, ue) ==
  LET first == Slice(chunk, 0, OkCount(Len(chunk), Len(ue)))
  IN  [k \in 1..Len(first) |-> ChangedRow(first[k])]

\* line 285: /not stocked at the location/i.test(msg)
IsNotStocked(msg) == msg = "not stocked at the location"

\* a list, not a Set: an item flagged again is added again
SetAddAgain(set, x) == Append(set, x)

\* line 286: notStockedSet.add, in insertion order
SetAdd(set, x) == IF x \in Range(set) THEN set ELSE Append(set, x)

\* lines 282-288: notStockedSet after the user errors of one call
RECURSIVE CollectNotStocked(_, _, _)
CollectNotStocked(set, chunk, ue) ==
  IF ue = <<>> THEN set
  ELSE LET e   == Head(ue)
           idx == e.field
       IN  CollectNotStocked(
             IF IsNotStocked(e.message) /\ idx >= 0 /\ idx < Len(chunk)
               THEN SetAdd(set, chunk[idx + 1].inventory_item_id)
               ELSE set,
             chunk, Tail(ue))

\* a whole-call failure that counts one error, not the chunk
FailErrorsOne(chunk) == 1

\* line 297: errors += chunk.length
FailErrors(chunk) == Len(chunk)

(***************************************************************************)
(* The catalog index (lines 82-110).                                       *)
(***************************************************************************)
\* String.prototype.trim, for the blank " "
RECURSIVE TrimLeft(_)
TrimLeft(s) == IF s # <<>> /\ Head(s) = " " THEN TrimLeft(Tail(s)) ELSE s
RECURSIVE TrimRight(_)
TrimRight(s) ==
  IF s # <<>> /\ s[Len(s)] = " " THEN TrimRight(SubSeq(s, 1, Len(s) - 1)) ELSE s
Trim(s) == TrimLeft(TrimRight(s))

\* an index whose exact map keeps the first record of a SKU
IndexEdgeKeepsFirst(ix, e) ==
  LET sku   == Trim(e.sku)
      invId == ParseInvGid(e.gid)
  IN  IF sku = NoSku \/ invId = Undefined
        THEN [ix EXCEPT !.cursor = e.cursor]
        ELSE LET n == normalizeSkuText(sku)
             IN  [exact      |-> IF sku \in DOMAIN ix.exact THEN ix.exact
                                   ELSE MapSet(ix.exact, sku, invId),
                  normalized |-> MapSet(ix.normalized, n,
                                        Append(ListGet(ix.normalized, n), invId)),
                  cursor     |-> e.cursor]

\* lines 94-104: one edge of a page
IndexEdge(ix, e) ==
  LET sku   == Trim(e.sku)
      invId == ParseInvGid(e.gid)
  IN  IF sku = NoSku \/ invId = Undefined
        THEN [ix EXCEPT !.cursor = e.cursor]
        ELSE LET n == normalizeSkuText(sku)
             IN  [exact      |-> MapSet(ix.exact, sku, invId),
                  normalized |-> MapSet(ix.normalized, n,
                                        Append(ListGet(ix.normalized, n), invId)),
                  cursor     |-> e.cursor]

\* lines 93-105: the edges of one page, in order
RECURSIVE IndexEdges(_, _)
IndexEdges(ix, edges) ==
  IF edges = <<>> THEN ix ELSE IndexEdges(IndexEdge(ix, Head(edges)), Tail(edges))

\* the listing source: the page after a cursor, and whether more follow
PageAfter(lst, after) ==
  [ok          |-> TRUE,
   edges       |-> SubSeq(lst, after + 1, Min(after + PageFirst, Len(lst))),
   hasNextPage |-> after + PageFirst < Len(lst)]

\* a listing source that chooses its own pages, some of them empty: the page
\* that follows the page holding the entry of cursor `after`
PageHolding(pages, after) ==
  CHOOSE p \in 1..Len(pages) :
    \E k \in 1..Len(pages[p]) : pages[p][k].cursor = after

PagedAfter(pages, after) ==
  LET p == IF after = NoCursor THEN 1 ELSE PageHolding(pages, after) + 1
  IN  IF p \in 1..Len(pages)
        THEN [ok |-> TRUE, edges |-> pages[p], hasNextPage |-> p < Len(pages)]
        ELSE [ok |-> TRUE, edges |-> <<>>, hasNextPage |-> FALSE]

(***************************************************************************)
(* Inputs.                                                                 *)
(***************************************************************************)
SkuA1     == <<"A", "1">>
SkuLowA1  == <<"a", "1">>
SkuDashA1 == <<"A", "-", "1">>
SkuB2     == <<"B", "2">>
SkuC3     == <<"C", "3">>

SeqsUpTo(S, n) == UNION {[1..k -> S] : k \in 0..n}

\* a listed record: its cursor is its place in the listing, and so is the id
\* of its inventory item (each variant has an inventory item of its own)
Edge(k, kind) ==
  [cursor |-> k, sku |-> kind.sku,
   gid |-> IF kind.wellFormed THEN invGid(k) ELSE [type |-> "Product", id |-> k]]

EdgeKinds ==
  {[sku |-> x, wellFormed |-> TRUE] : x \in {SkuA1, SkuDashA1, SkuB2, NoSku}}
    \cup {[sku |-> SkuA1, wellFormed |-> FALSE]}

MatchListings ==
  {[k \in 1..Len(ks) |-> Edge(k, ks[k])] : ks \in SeqsUpTo(EdgeKinds, MaxCatalog)}

\* the index build's catalogs: SKUs that differ in case and punctuation, a
\* SKU with a blank before it, a SKU of blanks only, no SKU, an id that is
\* not an inventory item's
SkuPaddedA1 == <<" ", "A", "1">>
SkuBlank    == <<" ">>

CatalogKinds ==
  {[sku |-> x, wellFormed |-> TRUE] :
     x \in {SkuA1, SkuDashA1, SkuB2, SkuPaddedA1, SkuBlank, NoSku}}
    \cup {[sku |-> SkuA1, wellFormed |-> FALSE]}

CatalogListings ==
  {[k \in 1..Len(ks) |-> Edge(k, ks[k])] : ks \in SeqsUpTo(CatalogKinds, MaxRecords)}

RunListing ==
  <<Edge(1, [sku |-> SkuA1, wellFormed |-> TRUE]),
    Edge(2, [sku |-> SkuB2, wellFormed |-> TRUE]),
    Edge(3, [sku |-> SkuC3, wellFormed |-> TRUE])>>

\* paged sources: up to MaxPages pages of 0..PageFirst records each, the
\* records numbered through, their SKUs taken in turn from A1, B2, C3
RECURSIVE SumTo(_, _)
SumTo(sizes, p) == IF p = 0 THEN 0 ELSE sizes[p] + SumTo(sizes, p - 1)

PagedSource(sizes) ==
  [p \in 1..Len(sizes) |->
     [k \in 1..sizes[p] |->
        LET n == SumTo(sizes, p - 1) + k
        IN  Edge(n, [sku |-> <<SkuA1, SkuB2, SkuC3>>[(n % 3) + 1],
                     wellFormed |-> TRUE])]]

PagedSources ==
  {PagedSource(sizes) :
     sizes \in {x \in SeqsUpTo(0..PageFirst, MaxPages) : Len(x) > 0}}

\* the feed table is a Map sku -> qty, in insertion order: no SKU twice
\* the matcher's feeds: distinct SKUs in any order, row k with quantity k
MatchFeeds ==
  {[k \in 1..Len(ks) |-> [sku |-> ks[k], qty |-> k]] :
     ks \in {x \in SeqsUpTo({SkuA1, SkuLowA1, SkuB2}, MaxFeed) :
               \A a, b \in 1..Len(x) : a # b => x[a] # x[b]}}

RunRows ==
  <<[sku |-> SkuA1, qty |-> 1], [sku |-> SkuB2, qty |-> 0],
    [sku |-> SkuLowA1, qty |-> 0], [sku |-> SkuC3, qty |-> 1]>>

\* the rows of RunRows at a set of places, in order
RECURSIVE PickRows(_, _)
PickRows(rows, places) ==
  IF rows = <<>> THEN <<>>
  ELSE LET rest == PickRows(Tail(rows), {p - 1 : p \in places \ {1}})
       IN  IF 1 \in places THEN <<Head(rows)>> \o rest ELSE rest

RunFeeds ==
  {PickRows(RunRows, P) : P \in {Q \in SUBSET (1..Len(RunRows)) : Cardinality(Q) <= MaxFeed}}

\* a catalog with two records under one normalized key and records no feed
\* row names, and feed rows that are ambiguous, matched twice over, or missed
SkuLowB2 == <<"b", "2">>
SkuD4    == <<"D", "4">>
SkuE5    == <<"E", "5">>

TargetListing ==
  <<Edge(1, [sku |-> SkuA1, wellFormed |-> TRUE]),
    Edge(2, [sku |-> SkuDashA1, wellFormed |-> TRUE]),
    Edge(3, [sku |-> SkuB2, wellFormed |-> TRUE]),
    Edge(4, [sku |-> SkuC3, wellFormed |-> TRUE]),
    Edge(5, [sku |-> SkuE5, wellFormed |-> TRUE])>>

TargetRows ==
  <<[sku |-> SkuLowA1, qty |-> 1], [sku |-> SkuB2, qty |-> 1],
    [sku |-> SkuLowB2, qty |-> 0], [sku |-> SkuC3, qty |-> 1],
    [sku |-> SkuD4, qty |-> 1]>>

TargetFeeds ==
  {PickRows(TargetRows, P) :
     P \in {Q \in SUBSET (1..Len(TargetRows)) : Cardinality(Q) <= MaxFeed}}

MatchSkuMaps ==
  {EmptyMap} \cup {[k \in {a} |-> b] : a \in {SkuLowA1, SkuB2}, b \in {SkuA1, SkuLowA1, SkuB2}}

Modes == {"", "exact", "prefer-exact"}

\* the locations the store knows
Locations == <<[id |-> 7, name |-> "Main"]>>

EnvOk(mode, batch, sweep) ==
  [secrets |-> TRUE, locId |-> 5, locName |-> "", mode |-> mode,
   gqlBatch |-> batch, fullSweep |-> sweep]

MatchEnvs == {EnvOk(m, 0, "true") : m \in Modes}

TargetEnvs ==
  {EnvOk("", 0, "true"), EnvOk("", 1, "true"),
   [EnvOk("", 0, "true") EXCEPT !.locId = 0, !.locName = "Main"]}

RunEnvs ==
  LET base(b) == EnvOk("", b, "true")
  IN  {base(b) : b \in 0..MaxBatch}
      \cup {[base(0) EXCEPT !.locId = 0, !.locName = "Main"],
            [base(0) EXCEPT !.fullSweep = "false"],
            [base(0) EXCEPT !.secrets = FALSE],
            [base(0) EXCEPT !.locId = 0],
            [base(0) EXCEPT !.locId = 0, !.locName = "Depot"]}

(***************************************************************************)
(* State.                                                                  *)
(***************************************************************************)
VARIABLES
  pc,            \* where main is
  env,           \* process.env
  feed,          \* parseCsvNumeric's table
  skuMap,        \* loadSkuMap's table
  listing,       \* the catalog the listing source pages through
  exact, normalized, cursor, hasNext,       \* fetchAllVariantSkuToInvItem
  location_id,
  row,           \* feed rows the match loop has consumed
  candidates, misses, ambiguous,
  matchedExact, matchedMapped, matchedNormalized,
  work, i, updated, errors, changedRows,
  notStockedSet, j, retry,
  inflight,      \* the places in calls of the requests not yet answered
  resp,          \* the answer main is resuming with
  calls,         \* every request issued, in order
  failed,        \* the places in calls of the requests that failed at call level
  flagged,       \* <<pass, item>> -> the not-stocked errors that named the item
  summary

vars == <<pc, env, feed, skuMap, listing, exact, normalized, cursor, hasNext,
          location_id, row, candidates, misses, ambiguous,
          matchedExact, matchedMapped, matchedNormalized,
          work, i, updated, errors, changedRows, notStockedSet, j, retry,
          inflight, resp, calls, failed, flagged, summary>>

inputVars == <<env, feed, skuMap, listing>>
indexVars == <<exact, normalized, cursor, hasNext>>
matchVars == <<row, candidates, misses, ambiguous,
               matchedExact, matchedMapped, matchedNormalized>>
writeVars == <<work, i, updated, errors, changedRows, notStockedSet, j, retry>>

NoResp == [ok |-> FALSE, none |-> TRUE]
NoSummary == [none |-> TRUE]

InitWith(Listings, Feeds, SkuMaps, Envs) ==
  /\ listing \in Listings
  /\ feed \in Feeds
  /\ skuMap \in SkuMaps
  /\ env \in Envs
  /\ pc = "preflight"
  /\ exact = EmptyMap /\ normalized = EmptyMap
  /\ cursor = NoCursor /\ hasNext = TRUE
  /\ location_id = 0
  /\ row = 0
  /\ candidates = <<>> /\ misses = <<>> /\ ambiguous = <<>>
  /\ matchedExact = 0 /\ matchedMapped = 0 /\ matchedNormalized = 0
  /\ work = <<>> /\ i = 0 /\ updated = 0 /\ errors = 0 /\ changedRows = <<>>
  /\ notStockedSet = <<>> /\ j = 0 /\ retry = <<>>
  /\ inflight = {} /\ resp = NoResp /\ calls = <<>> /\ failed = {}
  /\ flagged = EmptyMap
  /\ summary = NoSummary

Init == InitWith({RunListing}, RunFeeds, {EmptyMap}, RunEnvs)
InitMatch == InitWith(MatchListings, MatchFeeds, MatchSkuMaps, MatchEnvs)
InitTargets == InitWith({TargetListing}, TargetFeeds, {EmptyMap}, TargetEnvs)
InitCatalog == InitWith(CatalogListings, {<<>>}, {EmptyMap}, {EnvOk("", 0, "true")})
InitIndex == InitWith(PagedSources, {<<>>}, {EmptyMap}, {EnvOk("", 0, "true")})

(***************************************************************************)
(* Requests and answers.                                                   *)
(***************************************************************************)
Issue(req) ==
  /\ inflight' = inflight \cup {Len(calls) + 1}
  /\ calls' = Append(calls, req)

\* the call being answered, and its request
TheCall == CHOOSE k \in inflight : TRUE
TheRequest == calls[TheCall]

\* an answer that leaves its request in flight
AnswerLeavesInFlight(r, callFailed) ==
  /\ resp' = r
  /\ inflight' = inflight
  /\ failed' = IF callFailed THEN failed \cup {TheCall} ELSE failed

\* the request in flight is answered with r
Answer(r, callFailed) ==
  /\ resp' = r
  /\ inflight' = inflight \ {TheCall}
  /\ failed' = IF callFailed THEN failed \cup {TheCall} ELSE failed

NotStockedMsg == "not stocked at the location"

\* the userErrors a write call on n rows may return: each names a row of the
\* chunk through field[2], or carries no field (-1)
UserErrors(n) ==
  SeqsUpTo([field : -1..(n - 1), message : {NotStockedMsg, "other"}], MaxErrs)

\* how many not-stocked errors of an answer name the entry of item id in req
Named(req, ue, id) ==
  Cardinality({e \in 1..Len(ue) :
                 /\ ue[e].message = NotStockedMsg
                 /\ ue[e].field \in 0..(Len(req.quantities) - 1)
                 /\ req.quantities[ue[e].field + 1].inventoryItemId.id = id})

\* the items an answer flags as not stocked, counted by pass and item
Flag(fl, req, ue) ==
  LET ids  == {req.quantities[k].inventoryItemId.id : k \in 1..Len(req.quantities)}
      keys == {<<req.pass, id>> : id \in {x \in ids : Named(req, ue, x) > 0}}
  IN  [k \in (DOMAIN fl) \cup keys |->
         (IF k \in DOMAIN fl THEN fl[k] ELSE 0) + Named(req, ue, k[2])]

BATCH == BatchOf(env.gqlBatch)

(***************************************************************************)
(* Preflight (lines 10-15).                                                *)
(***************************************************************************)
Preflight ==
  /\ pc = "preflight"
  /\ pc' = IF ~env.secrets \/ (env.locId = 0 /\ env.locName = "")
             THEN "exit" ELSE "fetch"
  /\ UNCHANGED <<inputVars, indexVars, location_id, matchVars, writeVars,
                 inflight, resp, calls, summary, failed, flagged>>

(***************************************************************************)
(* fetchAllVariantSkuToInvItem (lines 82-110, called at line 197).         *)
(***************************************************************************)
\* lines 90-91: gql(q, { after: cursor })
SendFetch ==
  /\ pc = "fetch" /\ hasNext
  /\ Issue([op |-> "productVariants", after |-> cursor])
  /\ pc' = "fetch_wait"
  /\ UNCHANGED <<inputVars, indexVars, location_id, matchVars, writeVars,
                 resp, summary, failed, flagged>>

\* the listing source answers with the page after the cursor, or the call fails
RespondFetch ==
  /\ pc = "fetch_wait"
  /\ \E r \in {PageAfter(listing, TheRequest.after),
              [ok |-> FALSE, edges |-> <<>>, hasNextPage |-> FALSE]} :
       Answer(r, ~r.ok)
  /\ pc' = "fetch_resp"
  /\ UNCHANGED <<inputVars, indexVars, location_id, matchVars, writeVars,
                 calls, summary, flagged>>

\* lines 92-108, and the loop test of line 90
HandlePage ==
  /\ pc = "fetch_resp" /\ resp.ok
  /\ LET ix == IndexEdges([exact |-> exact, normalized |-> normalized,
                           cursor |-> cursor], resp.edges)
     IN  /\ exact' = ix.exact
         /\ normalized' = ix.normalized
         /\ cursor' = ix.cursor
  /\ hasNext' = resp.hasNextPage
  /\ pc' = IF resp.hasNextPage THEN "fetch" ELSE "locate"
  /\ resp' = NoResp
  /\ UNCHANGED <<inputVars, location_id, matchVars, writeVars,
                 inflight, calls, summary, failed, flagged>>

\* line 66 throws, and nothing around lines 91 and 197 catches it
FetchThrows ==
  /\ pc = "fetch_resp" /\ ~resp.ok
  /\ pc' = "crashed"
  /\ resp' = NoResp
  /\ UNCHANGED <<inputVars, indexVars, location_id, matchVars, writeVars,
                 inflight, calls, summary, failed, flagged>>

\* lines 90-91, for as long as the run has issued fewer than MaxCalls calls
SendFetchCapped ==
  /\ Len(calls) < MaxCalls
  /\ SendFetch

\* a paged listing source answers with the page after the cursor, or the
\* call fails
RespondPage ==
  /\ pc = "fetch_wait"
  /\ \E r \in {PagedAfter(listing, TheRequest.after),
              [ok |-> FALSE, edges |-> <<>>, hasNextPage |-> FALSE]} :
       Answer(r, ~r.ok)
  /\ pc' = "fetch_resp"
  /\ UNCHANGED <<inputVars, indexVars, location_id, matchVars, writeVars,
                 calls, summary, flagged>>

(***************************************************************************)
(* resolveLocationId (lines 70-80, called at line 198).                    *)
(***************************************************************************)
\* line 71
LocateById ==
  /\ pc = "locate" /\ env.locId # 0
  /\ location_id' = env.locId
  /\ pc' = "match"
  /\ UNCHANGED <<inputVars, indexVars, matchVars, writeVars,
                 inflight, resp, calls, summary, failed, flagged>>

\* lines 72-74
SendLocations ==
  /\ pc = "locate" /\ env.locId = 0
  /\ Issue([op |-> "locations"])
  /\ pc' = "locate_wait"
  /\ UNCHANGED <<inputVars, indexVars, location_id, matchVars, writeVars,
                 resp, summary, failed, flagged>>

RespondLocations ==
  /\ pc = "locate_wait"
  /\ \E r \in {[ok |-> TRUE, locations |-> Locations],
              [ok |-> FALSE, locations |-> <<>>]} :
       Answer(r, ~r.ok)
  /\ pc' = "locate_resp"
  /\ UNCHANGED <<inputVars, indexVars, location_id, matchVars, writeVars,
                 calls, summary, flagged>>

\* a lookup that falls back on whatever locations there are
LocationAny(locs, name) ==
  IF {k \in 1..Len(locs) : locs[k].name = name} # {}
    THEN {k \in 1..Len(locs) : locs[k].name = name}
    ELSE 1..Len(locs)

\* line 77: the locations whose name is SHOPIFY_LOCATION_NAME
LocationNamed(locs, name) == {k \in 1..Len(locs) : locs[k].name = name}

\* lines 76-79, the location is found
LocationFound ==
  /\ pc = "locate_resp" /\ resp.ok
  /\ LocationNamed(resp.locations, env.locName) # {}
  /\ LET k == CHOOSE m \in LocationNamed(resp.locations, env.locName) :
                \A o \in LocationNamed(resp.locations, env.locName) : m <= o
     IN  location_id' = resp.locations[k].id
  /\ pc' = "match"
  /\ resp' = NoResp
  /\ UNCHANGED <<inputVars, indexVars, matchVars, writeVars,
                 inflight, calls, summary, failed, flagged>>

\* lines 75 and 78 throw, and nothing around line 198 catches it
LocationThrows ==
  /\ pc = "locate_resp"
  /\ ~resp.ok \/ LocationNamed(resp.locations, env.locName) = {}
  /\ pc' = "crashed"
  /\ resp' = NoResp
  /\ UNCHANGED <<inputVars, indexVars, location_id, matchVars, writeVars,
                 inflight, calls, summary, failed, flagged>>

(***************************************************************************)
(* The match loop (lines 208-240), one feed row a step.                    *)
(***************************************************************************)
\* the `continue` of line 229 forgotten: an ambiguous row runs on into line 235
PushedNoContinue(list, m, bucket) ==
  IF m.bucket = bucket \/ (m.bucket = "ambiguous" /\ bucket = "miss")
    THEN Append(list, m.row) ELSE list

\* lines 228-229, 236-237, 239: the one list the row is pushed to
Pushed(list, m, bucket) == IF m.bucket = bucket THEN Append(list, m.row) ELSE list

MatchStep ==
  /\ pc = "match" /\ row < Len(feed)
  /\ LET f == feed[row + 1]
         m == MatchRow(f.sku, f.qty, exact, normalized, skuMap, ModeOf(env.mode))
     IN  /\ candidates' = Pushed(candidates, m, "candidate")
         /\ ambiguous' = Pushed(ambiguous, m, "ambiguous")
         /\ misses' = Pushed(misses, m, "miss")
         /\ matchedExact' = matchedExact + m.dExact
         /\ matchedMapped' = matchedMapped + m.dMapped
         /\ matchedNormalized' = matchedNormalized + m.dNormalized
  /\ row' = row + 1
  /\ UNCHANGED <<pc, inputVars, indexVars, location_id, writeVars,
                 inflight, resp, calls, summary, failed, flagged>>

\* lines 242-261: dedupe by inventory_item_id, scope of work, counters
DedupeAndScope ==
  /\ pc = "match" /\ row = Len(feed)
  /\ work' = ScopeWork(Dedupe(candidates), env.fullSweep)
  /\ i' = 0 /\ updated' = 0 /\ errors' = 0
  /\ changedRows' = <<>> /\ notStockedSet' = <<>>
  /\ pc' = "pass1"
  /\ UNCHANGED <<inputVars, indexVars, location_id, matchVars, j, retry,
                 inflight, resp, calls, summary, failed, flagged>>

\* recmar-sync.mjs lines 228-244: the work list is the matched rows
LegacyDecideWork ==
  /\ pc = "match" /\ row = Len(feed)
  /\ work' = ScopeWork(candidates, env.fullSweep)
  /\ i' = 0 /\ updated' = 0 /\ errors' = 0
  /\ changedRows' = <<>>
  /\ pc' = "pass1"
  /\ UNCHANGED <<inputVars, indexVars, location_id, matchVars,
                 notStockedSet, j, retry, inflight, resp, calls, summary, failed, flagged>>

(***************************************************************************)
(* PASS 1 (lines 264-301).                                                 *)
(***************************************************************************)
WriteRequest(pass, chunk) ==
  [op |-> "inventorySetQuantities", pass |-> pass,
   quantities |-> Quantities(chunk, location_id)]

\* lines 264-278: the next chunk is sent
SendWrite ==
  /\ pc = "pass1" /\ i < Len(work)
  /\ Issue(WriteRequest(1, ChunkAt(work, i, BATCH)))
  /\ pc' = "pass1_wait"
  /\ UNCHANGED <<inputVars, indexVars, location_id, matchVars, writeVars,
                 resp, summary, failed, flagged>>

\* the write API answers a set-quantities call: userErrors, or the call fails
RespondWrite ==
  /\ pc \in {"pass1_wait", "retry_wait"}
  /\ \E r \in {[ok |-> FALSE, userErrors |-> <<>>]}
              \cup {[ok |-> TRUE, userErrors |-> ue] :
                      ue \in UserErrors(Len(TheRequest.quantities))} :
       /\ Answer(r, ~r.ok)
       /\ flagged' = IF pc = "pass1_wait"
                       THEN Flag(flagged, TheRequest, r.userErrors)
                       ELSE flagged
  /\ pc' = IF pc = "pass1_wait" THEN "pass1_resp" ELSE "retry_resp"
  /\ UNCHANGED <<inputVars, indexVars, location_id, matchVars, writeVars,
                 calls, summary>>

\* lines 278-295: the call came back
Pass1Ok ==
  /\ pc = "pass1_resp" /\ resp.ok
  /\ LET chunk == ChunkAt(work, i, BATCH)
         ue    == resp.userErrors
     IN  /\ notStockedSet' = CollectNotStocked(notStockedSet, chunk, ue)
         /\ errors' = errors + Len(ue)
         /\ updated' = updated + OkCount(Len(chunk), Len(ue))
         /\ changedRows' = changedRows \o ChangedOf(chunk, ue)
  /\ i' = i + BATCH
  /\ pc' = "pass1"
  /\ resp' = NoResp
  /\ UNCHANGED <<inputVars, indexVars, location_id, matchVars, work, j, retry,
                 inflight, calls, summary, failed, flagged>>

\* lines 296-300: the call threw
Pass1Fail ==
  /\ pc = "pass1_resp" /\ ~resp.ok
  /\ errors' = errors + FailErrors(ChunkAt(work, i, BATCH))
  /\ i' = i + BATCH
  /\ pc' = "pass1"
  /\ resp' = NoResp
  /\ UNCHANGED <<inputVars, indexVars, location_id, matchVars, work, updated,
                 changedRows, notStockedSet, j, retry, inflight, calls, summary, failed, flagged>>

\* line 264 ends the loop; line 304
Pass1Exit ==
  /\ pc = "pass1" /\ i >= Len(work)
  /\ pc' = IF Len(notStockedSet) > 0 THEN "activate" ELSE "summary"
  /\ UNCHANGED <<inputVars, indexVars, location_id, matchVars, writeVars,
                 inflight, resp, calls, summary, failed, flagged>>

(***************************************************************************)
(* Activation and retry (lines 304-343).                                   *)
(***************************************************************************)
\* lines 306-307 and 113-117: connectInventory(invId, location_id)
SendConnect ==
  /\ pc = "activate" /\ j < Len(notStockedSet)
  /\ Issue([op |-> "connect", inventory_item_id |-> notStockedSet[j + 1],
            location_id |-> location_id])
  /\ pc' = "activate_wait"
  /\ UNCHANGED <<inputVars, indexVars, location_id, matchVars, writeVars,
                 resp, summary, failed, flagged>>

\* the connect endpoint answers: connected, 422, or another failure
RespondConnect ==
  /\ pc = "activate_wait"
  /\ \E r \in {[ok |-> TRUE, status |-> 200], [ok |-> FALSE, status |-> 422],
              [ok |-> FALSE, status |-> 500]} :
       Answer(r, ~r.ok /\ r.status # 422)
  /\ pc' = "activate_resp"
  /\ UNCHANGED <<inputVars, indexVars, location_id, matchVars, writeVars,
                 calls, summary, flagged>>

\* lines 118-122: whether connectInventory throws
ConnectThrows(r) == ~r.ok /\ r.status # 422

\* line 307: connectInventory returned
ConnectOk ==
  /\ pc = "activate_resp" /\ ~ConnectThrows(resp)
  /\ j' = j + 1
  /\ pc' = "activate"
  /\ resp' = NoResp
  /\ UNCHANGED <<inputVars, indexVars, location_id, matchVars, work, i, updated,
                 errors, changedRows, notStockedSet, retry, inflight, calls,
                 summary, failed, flagged>>

\* line 308: connectInventory threw, the failure is logged
ConnectFail ==
  /\ pc = "activate_resp" /\ ConnectThrows(resp)
  /\ j' = j + 1
  /\ pc' = "activate"
  /\ resp' = NoResp
  /\ UNCHANGED <<inputVars, indexVars, location_id, matchVars, work, i, updated,
                 errors, changedRows, notStockedSet, retry, inflight, calls,
                 summary, failed, flagged>>

\* a filter that lets every work item through
InSetAll(x) == TRUE

\* line 312: notStockedSet.has(x.inventory_item_id)
InSet(x) == x.inventory_item_id \in Range(notStockedSet)

\* line 306 ends the loop; line 312: the rows to retry
ActivateExit ==
  /\ pc = "activate" /\ j >= Len(notStockedSet)
  /\ retry' = SelectSeq(work, InSet)
  /\ i' = 0
  /\ pc' = "retry"
  /\ UNCHANGED <<inputVars, indexVars, location_id, matchVars, work, updated,
                 errors, changedRows, notStockedSet, j, inflight, resp, calls,
                 summary, failed, flagged>>

\* lines 313-326
SendRetry ==
  /\ pc = "retry" /\ i < Len(retry)
  /\ Issue(WriteRequest(2, ChunkAt(retry, i, BATCH)))
  /\ pc' = "retry_wait"
  /\ UNCHANGED <<inputVars, indexVars, location_id, matchVars, writeVars,
                 resp, summary, failed, flagged>>

\* lines 327-336
RetryOk ==
  /\ pc = "retry_resp" /\ resp.ok
  /\ LET chunk == ChunkAt(retry, i, BATCH)
         ue    == resp.userErrors
     IN  /\ errors' = errors + Len(ue)
         /\ updated' = updated + OkCount(Len(chunk), Len(ue))
         /\ changedRows' = changedRows \o ChangedOf(chunk, ue)
  /\ i' = i + BATCH
  /\ pc' = "retry"
  /\ resp' = NoResp
  /\ UNCHANGED <<inputVars, indexVars, location_id, matchVars, work,
                 notStockedSet, j, retry, inflight, calls, summary, failed, flagged>>

\* lines 337-341
RetryFail ==
  /\ pc = "retry_resp" /\ ~resp.ok
  /\ errors' = errors + FailErrors(ChunkAt(retry, i, BATCH))
  /\ i' = i + BATCH
  /\ pc' = "retry"
  /\ resp' = NoResp
  /\ UNCHANGED <<inputVars, indexVars, location_id, matchVars, work, updated,
                 changedRows, notStockedSet, j, retry, inflight, calls, summary, failed, flagged>>

\* the recovery block as a loop: while items are flagged, go round again
AfterRetryWhile(set) == IF set # <<>> THEN "activate" ELSE "summary"

\* lines 304 and 343: the recovery block is an `if`, the summary comes next
AfterRetry(set) == "summary"

\* line 313 ends the loop
RetryExit ==
  /\ pc = "retry" /\ i >= Len(retry)
  /\ pc' = AfterRetry(notStockedSet)
  /\ UNCHANGED <<inputVars, indexVars, location_id, matchVars, writeVars,
                 inflight, resp, calls, summary, failed, flagged>>

(***************************************************************************)
(* The summary (lines 345-360).                                            *)
(***************************************************************************)
Summary ==
  /\ pc = "summary"
  /\ summary' = [feed_rows            |-> Len(feed),
                 shopify_variants_unique |-> MapSize(exact),
                 matched_exact        |-> matchedExact,
                 matched_mapped       |-> matchedMapped,
                 matched_normalized   |-> matchedNormalized,
                 ambiguous            |-> Len(ambiguous),
                 misses               |-> Len(misses),
                 processed_this_run   |-> Len(work),
                 location_id          |-> location_id,
                 updated              |-> updated,
                 errors               |-> errors,
                 full_sweep           |-> env.fullSweep = "true"]
  /\ pc' = "done"
  /\ UNCHANGED <<inputVars, indexVars, location_id, matchVars, writeVars,
                 inflight, resp, calls, failed, flagged>>

(***************************************************************************)
(* recmar-sync.mjs: the write loop and its end (lines 246-292).            *)
(***************************************************************************)
\* recmar-sync.mjs lines 260-269
LegacyWriteOk ==
  /\ pc = "pass1_resp" /\ resp.ok
  /\ LET chunk == ChunkAt(work, i, BATCH)
         ue    == resp.userErrors
     IN  /\ errors' = errors + Len(ue)
         /\ updated' = updated + OkCount(Len(chunk), Len(ue))
         /\ changedRows' = changedRows \o ChangedOf(chunk, ue)
  /\ i' = i + BATCH
  /\ pc' = "pass1"
  /\ resp' = NoResp
  /\ UNCHANGED <<inputVars, indexVars, location_id, matchVars, work,
                 notStockedSet, j, retry, inflight, calls, summary, failed, flagged>>

\* recmar-sync.mjs line 246 ends the loop
LegacyWriteExit ==
  /\ pc = "pass1" /\ i >= Len(work)
  /\ pc' = "summary"
  /\ UNCHANGED <<inputVars, indexVars, location_id, matchVars, writeVars,
                 inflight, resp, calls, summary, failed, flagged>>

(***************************************************************************)
(* Specifications.                                                         *)
(***************************************************************************)
Build ==
  \/ Preflight
  \/ SendFetch \/ RespondFetch \/ HandlePage \/ FetchThrows
  \/ LocateById \/ SendLocations \/ RespondLocations
  \/ LocationFound \/ LocationThrows
  \/ MatchStep

Next ==
  \/ Build
  \/ DedupeAndScope
  \/ SendWrite \/ RespondWrite \/ Pass1Ok \/ Pass1Fail \/ Pass1Exit
  \/ SendConnect \/ RespondConnect \/ ConnectOk \/ ConnectFail \/ ActivateExit
  \/ SendRetry \/ RetryOk \/ RetryFail \/ RetryExit
  \/ Summary

\* the run of part_000
Spec == Init /\ [][Next]_vars

\* the run of part_000 when the event loop and the collaborators keep going:
\* a step that can be taken is taken
SpecFair == Spec /\ WF_vars(Next)

\* the run of part_000 over a catalog with ambiguous and unmatched records
SpecTargets == InitTargets /\ [][Next]_vars

\* part_000 up to the deduplicated work list, over the matcher's inputs
NextMatch ==
  \/ Preflight
  \/ SendFetch \/ RespondFetch \/ HandlePage \/ FetchThrows
  \/ LocateById
  \/ MatchStep
  \/ DedupeAndScope

SpecMatch == InitMatch /\ [][NextMatch]_vars

\* the index build of part_000 over paged listing sources
NextIndex ==
  \/ Preflight
  \/ SendFetchCapped \/ RespondPage \/ HandlePage \/ FetchThrows

SpecIndex == InitIndex /\ [][NextIndex]_vars

\* the index build of part_000 over catalogs of every kind of record
NextCatalog ==
  \/ Preflight
  \/ SendFetch \/ RespondFetch \/ HandlePage \/ FetchThrows

SpecCatalog == InitCatalog /\ [][NextCatalog]_vars

\* the run of recmar-sync.mjs
NextLegacy ==
  \/ Build
  \/ LegacyDecideWork
  \/ SendWrite \/ RespondWrite \/ LegacyWriteOk \/ Pass1Fail \/ LegacyWriteExit
  \/ Summary

SpecLegacy == Init /\ [][NextLegacy]_vars

(***************************************************************************)
(* What the claims speak of.                                               *)
(***************************************************************************)
IsWrite(c) == c.op = "inventorySetQuantities"
IsPass1Write(c) == IsWrite(c) /\ c.pass = 1
IsRetryWrite(c) == IsWrite(c) /\ c.pass = 2

\* the entries of a sequence of write calls, in issue order
RECURSIVE Flatten(_)
Flatten(cs) == IF cs = <<>> THEN <<>> ELSE Head(cs).quantities \o Flatten(Tail(cs))

Pass1Calls == SelectSeq(calls, IsPass1Write)

Pass1Finished ==
  pc \in {"activate", "activate_wait", "activate_resp",
          "retry", "retry_wait", "retry_resp", "summary", "done"}

CeilDiv(n, c) == (n + c - 1) \div c

ItemIds(rows) == {rows[k].inventory_item_id : k \in 1..Len(rows)}

\* the quantity of the last matched row, in feed order, that resolved to id
LastQty(id) ==
  LET ks == {k \in 1..Len(candidates) : candidates[k].inventory_item_id = id}
  IN  candidates[CHOOSE k \in ks : \A o \in ks : o <= k].qty

\* main resumes from a write call that came back / that threw
WriteCameBack == pc \in {"pass1_resp", "retry_resp"} /\ resp.ok /\ pc' # pc
WriteThrew    == pc \in {"pass1_resp", "retry_resp"} /\ ~resp.ok /\ pc' # pc

\* the chunk of the write call main is resuming from
SentChunk == ChunkAt(IF pc = "pass1_resp" THEN work ELSE retry, i, BATCH)
SentRows  == Len(calls[Len(calls)].quantities)

(***************************************************************************)
(* C1.  The match loop puts every feed row in exactly one of candidates,   *)
(* ambiguous and misses: after any number of rows the three lists together *)
(* hold as many rows as were read, and once the loop is over as many as    *)
(* the feed has.                                                           *)
(***************************************************************************)
C1_EveryRowInOneBucket ==
  /\ Len(candidates) + Len(ambiguous) + Len(misses) = row
  /\ pc = "pass1" => Len(candidates) + Len(ambiguous) + Len(misses) = Len(feed)

C1_Witness ==
  /\ pc = "pass1"
  /\ Len(candidates) >= 1 /\ Len(ambiguous) >= 1 /\ Len(misses) >= 1

(***************************************************************************)
(* C2.  Each matched row is counted in exactly one of matchedExact,        *)
(* matchedMapped and matchedNormalized: the three add up to the number of  *)
(* matched rows (a row matched through the manual map is not also exact).  *)
(***************************************************************************)
C2_TiersCountEachMatchOnce ==
  matchedExact + matchedMapped + matchedNormalized = Len(candidates)

(***************************************************************************)
(* C3.  Each row's outcome is that of the three-tier reference: the feed   *)
(* SKU verbatim in exact; else the mapped SKU verbatim in exact; else, if  *)
(* the third tier is on, the normalized key of the mapped SKU (of the feed *)
(* SKU when there is no map entry): one candidate matches, several are     *)
(* ambiguous, none is a miss that carries the map target.                  *)
(*   as claimed: the third tier is on in mode normalize only               *)
(*   as amended: the third tier is on in every mode but exact              *)
(***************************************************************************)
Reference(feedSku, ex, norm, smap, tier3) ==
  LET hasMap == feedSku \in DOMAIN smap
      target == IF hasMap THEN smap[feedSku] ELSE feedSku
      list   == ListGet(norm, normalizeSkuText(target))
  IN  IF feedSku \in DOMAIN ex
        THEN [kind |-> "matched", itemId |-> ex[feedSku], mappedTo |-> NoSku]
      ELSE IF hasMap /\ target \in DOMAIN ex
        THEN [kind |-> "matched", itemId |-> ex[target], mappedTo |-> target]
      ELSE IF tier3 /\ Len(list) = 1
        THEN [kind |-> "matched", itemId |-> list[1], mappedTo |-> NoSku]
      ELSE IF tier3 /\ Len(list) > 1
        THEN [kind |-> "ambiguous", itemId |-> Undefined, mappedTo |-> NoSku]
      ELSE   [kind |-> "missed", itemId |-> Undefined,
              mappedTo |-> IF hasMap THEN target ELSE NoSku]

RowAgrees(tier3) ==
  row' = row + 1 =>
    LET f == feed[row + 1]
        r == Reference(f.sku, exact, normalized, skuMap, tier3)
    IN  CASE r.kind = "matched" ->
               /\ Len(candidates') = Len(candidates) + 1
               /\ SubSeq(candidates', 1, Len(candidates)) = candidates
               /\ candidates'[Len(candidates')].inventory_item_id = r.itemId
               /\ candidates'[Len(candidates')].qty = f.qty
               /\ ambiguous' = ambiguous /\ misses' = misses
          [] r.kind = "ambiguous" ->
               /\ Len(ambiguous') = Len(ambiguous) + 1
               /\ candidates' = candidates /\ misses' = misses
          [] r.kind = "missed" ->
               /\ Len(misses') = Len(misses) + 1
               /\ SubSeq(misses', 1, Len(misses)) = misses
               /\ misses'[Len(misses')].sku = f.sku
               /\ misses'[Len(misses')].mapped_to = r.mappedTo
               /\ candidates' = candidates /\ ambiguous' = ambiguous

C3_AsClaimed == [][RowAgrees(ModeOf(env.mode) = "normalize")]_vars

C3_ThreeTierReference == [][RowAgrees(ModeOf(env.mode) # "exact")]_vars

C3_Witness ==
  /\ pc = "pass1"
  /\ ModeOf(env.mode) = "prefer-exact"
  /\ matchedNormalized >= 1
  /\ \E k \in 1..Len(misses) : misses[k].mapped_to # NoSku

(***************************************************************************)
(* C4.  With full sweep on, the deduplicated work list holds one item per  *)
(* inventory item id, and as many items as the matched rows have distinct  *)
(* ids.                                                                    *)
(***************************************************************************)
C4_OneWorkItemPerItemId ==
  (pc = "pass1" /\ env.fullSweep = "true") =>
    /\ \A a, b \in 1..Len(work) :
         a # b => work[a].inventory_item_id # work[b].inventory_item_id
    /\ Len(work) = Cardinality(ItemIds(candidates))

C4_Witness ==
  /\ pc = "pass1" /\ env.fullSweep = "true"
  /\ Len(candidates) = 3 /\ Len(work) = 2

(***************************************************************************)
(* C5.  The quantity of a work item is that of the last matched row, in    *)
(* feed order, that resolved to its item id, and every write call of the   *)
(* run, first pass or retry, sends that quantity for the item.             *)
(***************************************************************************)
C5_LastWriteWins ==
  /\ \A k \in 1..Len(work) : work[k].qty = LastQty(work[k].inventory_item_id)
  /\ \A c \in 1..Len(calls) :
       IsWrite(calls[c]) =>
         \A q \in 1..Len(calls[c].quantities) :
           calls[c].quantities[q].quantity
             = LastQty(ParseInvGid(calls[c].quantities[q].inventoryItemId))

C5_Witness ==
  /\ pc = "done"
  /\ \E c \in 1..Len(calls) :
       /\ IsRetryWrite(calls[c])
       /\ \E q \in 1..Len(calls[c].quantities), a, b \in 1..Len(candidates) :
            /\ a < b
            /\ candidates[a].inventory_item_id = candidates[b].inventory_item_id
            /\ candidates[a].qty # candidates[b].qty
            /\ calls[c].quantities[q].inventoryItemId
                 = invGid(candidates[a].inventory_item_id)

(***************************************************************************)
(* C6.  recmar-sync.mjs: no bulk set-quantity request names the same       *)
(* inventory item twice.                                                   *)
(***************************************************************************)
C6_NoItemTwiceInOneRequest ==
  \A c \in 1..Len(calls) :
    IsWrite(calls[c]) =>
      \A a, b \in 1..Len(calls[c].quantities) :
        a # b => calls[c].quantities[a].inventoryItemId
                   # calls[c].quantities[b].inventoryItemId

(***************************************************************************)
(* C7.  The first pass sends the work list in consecutive chunks: the      *)
(* calls' entries, in issue order, are the work list from its start with   *)
(* nothing left out or repeated; every call but the last carries BATCH     *)
(* entries and the last between 1 and BATCH; when the pass is over there   *)
(* have been ceil(n / BATCH) calls and they carry the whole list.          *)
(***************************************************************************)
C7_ConsecutiveChunks ==
  LET p1   == Pass1Calls
      sent == Flatten(p1)
  IN  /\ Len(sent) <= Len(work)
      /\ sent = Quantities(SubSeq(work, 1, Len(sent)), location_id)
      /\ \A k \in 1..Len(p1) :
           IF k < Len(p1) THEN Len(p1[k].quantities) = BATCH
           ELSE Len(p1[k].quantities) \in 1..BATCH
      /\ Pass1Finished =>
           /\ Len(p1) = CeilDiv(Len(work), BATCH)
           /\ Len(sent) = Len(work)

C7_Witness ==
  /\ pc = "done" /\ BATCH = 2 /\ Len(work) = 3
  /\ Len(Pass1Calls) = 2
  /\ Len(Pass1Calls[1].quantities) = 2 /\ Len(Pass1Calls[2].quantities) = 1

(***************************************************************************)
(* C8.  A write call on n rows that comes back with k user errors adds k   *)
(* to errors and                                                           *)
(*   as claimed: n - k to updated                                          *)
(*   as amended: n - k to updated when k <= n, and nothing when k > n      *)
(***************************************************************************)
C8_AsClaimed ==
  [][WriteCameBack =>
       /\ updated' = updated + (SentRows - Len(resp.userErrors))
       /\ errors' = errors + Len(resp.userErrors)]_vars

C8_UpdatedAndErrored ==
  [][WriteCameBack =>
       /\ updated' = updated + (IF Len(resp.userErrors) <= SentRows
                                  THEN SentRows - Len(resp.userErrors) ELSE 0)
       /\ errors' = errors + Len(resp.userErrors)]_vars

\* a call on one row has come back with two user errors
C8_Witness ==
  /\ pc = "pass1" /\ Len(work) = 1 /\ i > 0
  /\ failed = {}
  /\ errors = 2 /\ updated = 0

(***************************************************************************)
(* C9.  When a write call fails as a whole, the chunk's length is added to *)
(* errors, updated and changedRows stay as they are, no request is issued  *)
(* by the handler and the loop moves on to the next chunk; so when the     *)
(* first pass is over its calls carry the whole work list, each item once. *)
(***************************************************************************)
C9_FailedCallSkipsTheChunk ==
  /\ [][WriteThrew =>
          /\ errors' = errors + SentRows
          /\ updated' = updated
          /\ changedRows' = changedRows
          /\ calls' = calls /\ inflight' = {}
          /\ i' = i + BATCH
          /\ pc' = (IF pc = "pass1_resp" THEN "pass1" ELSE "retry")]_vars
  /\ [](Pass1Finished => Flatten(Pass1Calls) = Quantities(work, location_id))

\* a first-pass call failed, and a later chunk was sent all the same
C9_Witness ==
  /\ Pass1Finished
  /\ \E a, b \in 1..Len(calls) :
       /\ a < b /\ a \in failed
       /\ IsPass1Write(calls[a]) /\ IsPass1Write(calls[b])

(***************************************************************************)
(* C10.  The rows a write call adds to changedRows are the rows of its     *)
(* chunk at the indices no user error names, when every user error names a *)
(* row of the chunk.                                                       *)
(***************************************************************************)
NamedRows(ue) == {ue[e].field : e \in 1..Len(ue)}

RECURSIVE RowsNotIn(_, _, _)
RowsNotIn(chunk, at, bad) ==
  IF chunk = <<>> THEN <<>>
  ELSE (IF at \in bad THEN <<>> ELSE <<ChangedRow(Head(chunk))>>)
         \o RowsNotIn(Tail(chunk), at + 1, bad)

C10_ChangedRowsHadNoError ==
  [][(WriteCameBack /\ NamedRows(resp.userErrors) \subseteq 0..(SentRows - 1)) =>
       changedRows' = changedRows \o RowsNotIn(SentChunk, 0, NamedRows(resp.userErrors))]_vars

(***************************************************************************)
(* What the recovery claims speak of.                                      *)
(***************************************************************************)
IsConnect(c) == c.op = "connect"

\* the items of the activation calls issued so far, in issue order
ConnectIds ==
  LET cs == SelectSeq(calls, IsConnect)
  IN  [k \in 1..Len(cs) |-> cs[k].inventory_item_id]

\* the items some not-stocked row error of pass p named
FlaggedInPass(p) == {k[2] : k \in {x \in DOMAIN flagged : x[1] = p}}

ActivationOver == pc \in {"retry", "retry_wait", "retry_resp", "summary", "done"}

(***************************************************************************)
(* C11.  Across a run the activation is called once for each distinct item *)
(* that a not-stocked row error of pass 1 named, however many such errors  *)
(* named it, and never for an item no such error named: no item is in two  *)
(* activation calls, every activated item was flagged in pass 1, and once  *)
(* the activation loop is over the activated items are the flagged items.  *)
(***************************************************************************)
C11_OneActivationPerFlaggedItem ==
  /\ \A a, b \in 1..Len(ConnectIds) : a # b => ConnectIds[a] # ConnectIds[b]
  /\ Range(ConnectIds) \subseteq FlaggedInPass(1)
  /\ ActivationOver => Range(ConnectIds) = FlaggedInPass(1)

\* a finished run of three work items: one named by two not-stocked errors,
\* one named by one, one never named; two activation calls were made
C11_Witness ==
  /\ pc = "done"
  /\ Len(work) = 3
  /\ Len(ConnectIds) = 2
  /\ \E id \in FlaggedInPass(1) : flagged[<<1, id>>] = 2
  /\ \E id \in ItemIds(work) : id \notin FlaggedInPass(1)

RetryCalls == SelectSeq(calls, IsRetryWrite)

\* the items of a sequence of write calls
WrittenIds(cs) ==
  {Flatten(cs)[k].inventoryItemId.id : k \in 1..Len(Flatten(cs))}

\* the items whose activation call failed: connectInventory threw
FailedActivations ==
  {calls[k].inventory_item_id : k \in {x \in failed : IsConnect(calls[x])}}

(***************************************************************************)
(* C12.  The retry pass writes exactly the work items whose activation     *)
(* succeeded: no item whose activation call failed (other than with the    *)
(* already-connected answer 422) is in a retry write call, and once the    *)
(* retry pass is over the retried items are the activated items less those *)
(* whose activation failed.                                                *)
(***************************************************************************)
C12_RetryOnlyActivatedItems ==
  /\ WrittenIds(RetryCalls) \cap FailedActivations = {}
  /\ pc \in {"summary", "done"} =>
       WrittenIds(RetryCalls) = Range(ConnectIds) \ FailedActivations

\* the answer main is resuming with carries a not-stocked error naming a row
AnswerFlagsARow ==
  /\ resp.ok
  /\ \E e \in 1..Len(resp.userErrors) :
       /\ resp.userErrors[e].message = NotStockedMsg
       /\ resp.userErrors[e].field \in 0..(SentRows - 1)

(***************************************************************************)
(* C13.  The recovery pass runs at most once: no activation call and no    *)
(* pass-1 write is issued after a retry write, no item is in two retry     *)
(* write calls, and when a retry write comes back with a not-stocked error *)
(* naming a row, main flags nothing, issues no call in the handler and     *)
(* goes on with the retry loop, from which only the summary follows.       *)
(***************************************************************************)
C13_RecoveryRunsOnce ==
  /\ [](\A a, b \in 1..Len(calls) :
         a < b /\ IsRetryWrite(calls[a]) =>
           ~IsConnect(calls[b]) /\ ~IsPass1Write(calls[b]))
  /\ [](\A a, b \in 1..Len(Flatten(RetryCalls)) :
         a # b => Flatten(RetryCalls)[a].inventoryItemId
                    # Flatten(RetryCalls)[b].inventoryItemId)
  /\ [][pc = "retry_resp" /\ AnswerFlagsARow /\ pc' # pc =>
          /\ notStockedSet' = notStockedSet /\ j' = j /\ retry' = retry
          /\ calls' = calls
          /\ pc' = "retry"]_vars
  /\ [][pc = "retry" /\ pc' # pc => pc' \in {"retry_wait", "summary"}]_vars

\* the last retry write came back with a not-stocked error naming a row
C13_Witness ==
  /\ pc = "retry_resp"
  /\ AnswerFlagsARow
  /\ i + BATCH >= Len(retry)
  /\ Len(ConnectIds) > 0

(***************************************************************************)
(* C14.  The errors of the summary are the tally after recovery: no work   *)
(* item is counted both in updated and in errors, a recovered item being   *)
(* no error. So in a finished run whose summary counts every work item as  *)
(* updated, the summary counts no error.                                   *)
(***************************************************************************)
C14_RecoveredItemsAreNoErrors ==
  pc = "done" /\ Len(work) > 0 /\ summary.updated = Len(work)
    => summary.errors = 0

(***************************************************************************)
(* C15.  Once the configuration is valid the run always ends in the        *)
(* summary, whatever calls fail and whatever row errors come back: from    *)
(* the first catalog fetch of a run that was given a location id, the      *)
(* summary is eventually printed.                                          *)
(***************************************************************************)
C15_RunReachesSummary ==
  (pc = "fetch" /\ env.secrets /\ env.locId # 0) ~> (pc = "done")

\* required secrets are missing, or no location id is given and the location
\* name is that of no location
ConfigInvalid ==
  \/ ~env.secrets
  \/ env.locId = 0 /\ \A k \in 1..Len(Locations) : Locations[k].name # env.locName

(***************************************************************************)
(* C16.  With required identifiers missing or a location that cannot be    *)
(* resolved, the run ends before any call that changes remote state: no    *)
(* set-quantities call and no activation call is ever issued, and the run  *)
(* never gets to the match loop.                                           *)
(***************************************************************************)
C16_NoWriteWithoutConfig ==
  ConfigInvalid =>
    /\ \A k \in 1..Len(calls) : ~IsWrite(calls[k]) /\ ~IsConnect(calls[k])
    /\ pc \in {"preflight", "exit", "fetch", "fetch_wait", "fetch_resp",
               "locate", "locate_wait", "locate_resp", "crashed"}

\* the locations were listed, none has the configured name, the run is over
C16_Witness ==
  /\ pc = "crashed"
  /\ env.locId = 0 /\ env.locName = "Depot"
  /\ failed = {}
  /\ \E k \in 1..Len(calls) : calls[k].op = "locations"

\* the stage of the run a call belongs to
Stage(c) ==
  CASE c.op = "productVariants" -> 1
    [] c.op = "locations"       -> 2
    [] IsPass1Write(c)          -> 3
    [] IsConnect(c)             -> 4
    [] IsRetryWrite(c)          -> 5

(***************************************************************************)
(* C17.  Network calls go out one at a time and in stage order: at most    *)
(* one call is in flight, and it is the last one issued, so every earlier  *)
(* call has completed; and the calls are issued catalog fetches first,     *)
(* then pass-1 writes, then activations, then retry writes.                *)
(***************************************************************************)
C17_OneCallAtATimeInStageOrder ==
  /\ Cardinality(inflight) <= 1
  /\ inflight \subseteq {Len(calls)}
  /\ \A a, b \in 1..Len(calls) : a < b => Stage(calls[a]) <= Stage(calls[b])

\* a retry write is in flight after fetches, pass-1 writes and activations
C17_Witness ==
  /\ pc = "retry_wait"
  /\ inflight = {Len(calls)}
  /\ \A st \in {1, 3, 4, 5} : \E k \in 1..Len(calls) : Stage(calls[k]) = st
  /\ Cardinality({k \in 1..Len(calls) : Stage(calls[k]) = 3}) > 1

\* how many entries of a sequence of write calls are for item id
TimesSent(cs, id) ==
  Cardinality({k \in 1..Len(Flatten(cs)) : Flatten(cs)[k].inventoryItemId.id = id})

\* the items of the pass-1 write calls that failed at call level
FailedPass1Ids ==
  UNION {{calls[k].quantities[q].inventoryItemId.id :
            q \in 1..Len(calls[k].quantities)} :
         k \in {x \in failed : IsPass1Write(calls[x])}}

(***************************************************************************)
(* C18.  Failed write calls are not retried: once pass 1 is over every     *)
(* work item was sent in exactly one pass-1 call, no item is ever sent in  *)
(* two retry calls, an item is sent in a retry call only if a not-stocked  *)
(* row error of pass 1 named it, and an item whose pass-1 call failed as a *)
(* whole is never sent again.                                              *)
(***************************************************************************)
C18_FailedChunksAreNotRetried ==
  /\ \A id \in ItemIds(work) :
       /\ TimesSent(Pass1Calls, id) <= 1
       /\ TimesSent(RetryCalls, id) <= 1
       /\ Pass1Finished => TimesSent(Pass1Calls, id) = 1
  /\ WrittenIds(Pass1Calls) \cup WrittenIds(RetryCalls) \subseteq ItemIds(work)
  /\ WrittenIds(RetryCalls) \subseteq FlaggedInPass(1)
  /\ WrittenIds(RetryCalls) \cap FailedPass1Ids = {}

\* a finished run in which a pass-1 call failed, another item was retried,
\* and the retry call failed as well
C18_Witness ==
  /\ pc = "done"
  /\ FailedPass1Ids # {}
  /\ RetryCalls # <<>>
  /\ \E k \in failed : IsRetryWrite(calls[k])

\* the place in candidates of the first matched row that resolved to id
FirstSeen(id) ==
  LET ks == {k \in 1..Len(candidates) : candidates[k].inventory_item_id = id}
  IN  CHOOSE k \in ks : \A o \in ks : k <= o

(***************************************************************************)
(* C19.  The deduplicated work list is in first-seen order: its items come *)
(* in the order of the first matched row of each item id, and a later row  *)
(* of an item already present replaces the quantity, and the SKU, without  *)
(* moving the item.                                                        *)
(***************************************************************************)
C19_FirstSeenOrder ==
  pc = "pass1" =>
    /\ \A a, b \in 1..Len(work) :
         a < b => FirstSeen(work[a].inventory_item_id)
                    < FirstSeen(work[b].inventory_item_id)
    /\ \A a \in 1..Len(work) : work[a].qty = LastQty(work[a].inventory_item_id)

\* three matched rows, the third for the item of the first: that item is
\* first in the work list, with the third row's quantity
C19_Witness ==
  /\ pc = "pass1"
  /\ Len(candidates) = 3 /\ Len(work) = 2
  /\ candidates[1].inventory_item_id = candidates[3].inventory_item_id
  /\ candidates[1].qty # candidates[3].qty
  /\ work[1] = candidates[3]
  /\ work[2] = candidates[2]

IsFetch(c) == c.op = "productVariants"
FetchCalls == SelectSeq(calls, IsFetch)

(***************************************************************************)
(* C20.  The index build pages the listing source to exhaustion, reading   *)
(* every page exactly once, pages that carry no entries included: no two   *)
(* fetches ask for the page after the same cursor, and when the build is   *)
(* over no call has failed and as many fetches were made as the source has *)
(* pages.                                                                  *)
(***************************************************************************)
C20_EveryPageReadOnce ==
  /\ \A a, b \in 1..Len(FetchCalls) :
       a # b => FetchCalls[a].after # FetchCalls[b].after
  /\ pc = "locate" => failed = {} /\ Len(FetchCalls) = Len(listing)

\* the SKU as listed
Verbatim(sku) == sku

\* the index the claim describes, for a reading Key of a record's SKU: a
\* record is valid when Key of its SKU is not empty and its id is an
\* inventory item's
IndexAgrees(Key(_)) ==
  LET IsValid(e) == Key(e.sku) # NoSku /\ e.gid.type = "InventoryItem"
      valid      == {k \in 1..Len(listing) : IsValid(listing[k])}
      lastOf(x)  == CHOOSE k \in valid :
                      /\ Key(listing[k].sku) = x
                      /\ \A o \in valid : Key(listing[o].sku) = x => o <= k
      idsOf(n)   == LET Has(e) == IsValid(e) /\ normalizeSkuText(Key(e.sku)) = n
                        sel    == SelectSeq(listing, Has)
                    IN  [k \in 1..Len(sel) |-> sel[k].gid.id]
  IN  /\ pc = "crashed" => failed # {}
      /\ pc = "locate" =>
           /\ DOMAIN exact = {Key(listing[k].sku) : k \in valid}
           /\ \A x \in DOMAIN exact : exact[x] = listing[lastOf(x)].gid.id
           /\ DOMAIN normalized
                = {normalizeSkuText(Key(listing[k].sku)) : k \in valid}
           /\ \A n \in DOMAIN normalized : normalized[n] = idsOf(n)

(***************************************************************************)
(* C21.  Once the index is built, exact maps each SKU of a valid record to *)
(* the item of the last valid record listed with that SKU, normalized      *)
(* holds under each normalized key the items of the valid records with     *)
(* that normalized SKU in listing order, records without a SKU or without  *)
(* a parseable item id are in neither map and stop nothing, and an empty   *)
(* catalog gives two empty maps. As claimed: the SKU is the listed text.   *)
(***************************************************************************)
C21_AsClaimed == IndexAgrees(Verbatim)

(***************************************************************************)
(* C21, amended.  The same, with the SKU of a record read as the listed    *)
(* text less the blanks around it: that trimmed text is the key of exact,  *)
(* and a record whose SKU is blanks only counts as lacking a SKU.          *)
(***************************************************************************)
C21_IndexOfValidRecords == IndexAgrees(Trim)

\* an index built from three records, one of them padded, one invalid, two
\* of them under one normalized key
C21_Witness ==
  /\ pc = "locate"
  /\ Len(listing) = 3
  /\ \E k \in 1..Len(listing) :
       Trim(listing[k].sku) # listing[k].sku /\ Trim(listing[k].sku) \in DOMAIN exact
  /\ \E k \in 1..Len(listing) : ParseInvGid(listing[k].gid) = Undefined
  /\ \E n \in DOMAIN normalized : Len(normalized[n]) = 2

\* the quantity of the work item of item id
WorkQty(id) ==
  work[CHOOSE k \in 1..Len(work) : work[k].inventory_item_id = id].qty

\* some feed row names item id: by the SKU of its record, or by a SKU that
\* normalizes as the SKU of its record does and as that of no other record
NamedByAFeedRow(id) ==
  \E f \in 1..Len(feed), e \in 1..Len(listing) :
    /\ listing[e].gid = invGid(id)
    /\ \/ listing[e].sku = feed[f].sku
       \/ /\ normalizeSkuText(listing[e].sku) = normalizeSkuText(feed[f].sku)
          /\ \A o \in 1..Len(listing) :
               normalizeSkuText(listing[o].sku) = normalizeSkuText(feed[f].sku)
                 => o = e

\* the target of an entry of a write call
EntryOnTarget(q) ==
  /\ q.inventoryItemId.type = "InventoryItem"
  /\ q.inventoryItemId.id \in ItemIds(work)
  /\ NamedByAFeedRow(q.inventoryItemId.id)
  /\ q.locationId = [type |-> "Location", id |-> location_id]
  /\ q.quantity = WorkQty(q.inventoryItemId.id)

C23_UpdatedAtMostProcessed ==
  pc = "done" => summary.updated <= summary.processed_this_run

\* a finished run with a retry in which every work item counts as updated
C23_Witness ==
  /\ pc = "done"
  /\ Len(work) >= 2
  /\ RetryCalls # <<>>
  /\ summary.updated = summary.processed_this_run

(***************************************************************************)
(* C24.  At the end of a run changedRows holds at most one row per item:   *)
(* a work item retried after activation is not there both from pass 1 and  *)
(* from the retry.                                                         *)
(***************************************************************************)
C24_OneChangedRowPerItem ==
  pc = "done" =>
    \A a, b \in 1..Len(changedRows) :
      a # b => changedRows[a].inventory_item_id # changedRows[b].inventory_item_id

====
